---- MODULE Spec2Model ----
(***************************************************************************)
(* ManagerService (src/src/features/manager/services.py) as a state        *)
(* machine.  One action per public service method; each action runs the    *)
(* whole method, from its arguments and from the values its collaborators  *)
(* (repository, credential verifier, token issuer, response sink) hand     *)
(* back, to the response or HTTP-style error the caller sees.  The state   *)
(* is what an observer of one request sees: the method called, its         *)
(* arguments, the collaborator calls it made in order, the cookies that    *)
(* reached the response sink, and the outcome.                             *)
(***************************************************************************)
EXTENDS Integers, Sequences, FiniteSets, TLC

VARIABLES
    op,       \* name of the service method handling the current request
    args,     \* its arguments
    ret,      \* what the caller gets: a response or an HTTP-style error
    calls,    \* collaborator calls it made, in order, each with what came back
    cookies,  \* cookies the response sink received during the request
    prev,     \* the activation or deactivation the caller made just before
    db        \* the rows of the tables of models.py

vars == <<op, args, ret, calls, cookies, prev, db>>

----------------------------------------------------------------------------
(* Bounds of the model. *)

\* Manager rows the repository can hand back
NumManagers == 2
\* counts returned by the aggregate queries range over 0..MaxCount
MaxCount == 1
\* rosters and lists returned by the repository hold at most MaxRows rows
MaxRows == 1
\* Auditor rows in the tables, each with one Counsellor, one Call and one Lead
NumAuditors == 2
\* length of the generated password (the code's default is 10)
PasswordLength == 4
\* __generate_strong_password is exercised for every length in 0..MaxPasswordLength
MaxPasswordLength == 5

----------------------------------------------------------------------------
(* Python values.  Every value carries its class, so that None, "", 0, [],  *)
(* {} and False stay different values that are all falsy.                   *)

None == [cls |-> "NoneType"]
PyStr(s) == [cls |-> "str", s |-> s]
PyInt(i) == [cls |-> "int", i |-> i]
PyBool(b) == [cls |-> "bool", b |-> b]
PyList(l) == [cls |-> "list", items |-> l]
PyDict(d) == [cls |-> "dict", map |-> d]

\* a collaborator call that raises something that is no HTTPException
RaisedText == "connection refused"
Raised == [cls |-> "Exception", text |-> RaisedText]
IsRaised(v) == v.cls = "Exception"

\* Python truthiness: `not x`
Falsy(x) ==
    CASE x.cls = "NoneType" -> TRUE
      [] x.cls = "str" -> x.s = ""
      [] x.cls = "int" -> x.i = 0
      [] x.cls = "bool" -> ~x.b
      [] x.cls = "list" -> x.items = <<>>
      [] x.cls = "dict" -> DOMAIN x.map = {}
      [] OTHER -> FALSE

----------------------------------------------------------------------------
(* status codes (fastapi.status) *)

HTTP_400_BAD_REQUEST == 400
HTTP_401_UNAUTHORIZED == 401
HTTP_403_FORBIDDEN == 403
HTTP_404_NOT_FOUND == 404
HTTP_500_INTERNAL_SERVER_ERROR == 500

----------------------------------------------------------------------------
(* Outcomes of a method body.                                              *)

\* raise HTTPException(status_code=..., detail=...)
HTTPException(status_code, detail) ==
    [status_code |-> status_code, detail |-> detail, kind |-> "HTTPException"]
\* return <response>
Return(body) == [kind |-> "return", body |-> body]
\* an exception that is no HTTPException leaves the body
Uncaught(text) == [text |-> text, kind |-> "Exception"]

\* one collaborator call and what it gave back
Call(target, method, arg, out) ==
    [target |-> target, method |-> method, arg |-> arg, out |-> out]

\* a finished run of a body: outcome, collaborator calls, cookies set
Done(outcome, cs, ck) == [ret |-> outcome, calls |-> cs, cookies |-> ck]

\* the fault-th collaborator call of the request raises (0: none does)
Out(o, k, v) == IF o.fault = k THEN Raised ELSE v

\* mutant: no `except Exception` clause, the exception leaves the method
try_except_reraise(run, detail) == run

\* mutant: the text of the exception is appended to the detail
try_except_leak(run, detail) ==
    IF run.ret.kind = "Exception"
    THEN [run EXCEPT !.ret = HTTPException(HTTP_500_INTERNAL_SERVER_ERROR,
                                           detail \o ": " \o run.ret.text)]
    ELSE run

\* try: <body> except HTTPException as e: raise e
\* except Exception as e: raise HTTPException(500, detail)
try_except(run, detail) ==
    IF run.ret.kind = "Exception"
    THEN [run EXCEPT !.ret = HTTPException(HTTP_500_INTERNAL_SERVER_ERROR, detail)]
    ELSE run

----------------------------------------------------------------------------
(* models.py rows *)

ManagerIds == 1..NumManagers
PlainPassword(i) == "secret" \o ToString(i)

Salts == {"s1", "s2"}
\* CryptContext(schemes=["bcrypt"]).hash: a salted digest, never the plaintext
pwd_context_hash(plain, salt) == "$2b$" \o salt \o "$" \o plain
\* CryptContext.verify(plain, hashed)
pwd_context_verify(plain, hashed) ==
    \E salt \in Salts : hashed = pwd_context_hash(plain, salt)

ManagerRow(i) ==
    [cls |-> "Manager",
     id |-> "manager-" \o ToString(i),
     name |-> "Manager " \o ToString(i),
     email |-> "m" \o ToString(i) \o "@corp.io",
     phone |-> "555-000" \o ToString(i),
     password |-> pwd_context_hash(PlainPassword(i), "s1")]
ManagerTable == {ManagerRow(i) : i \in ManagerIds}

AuditorRow(i) ==
    [cls |-> "Auditor",
     id |-> "auditor-" \o ToString(i),
     name |-> "Auditor " \o ToString(i),
     email |-> "a" \o ToString(i) \o "@corp.io",
     password |-> pwd_context_hash("audit" \o ToString(i), "s2"),
     manager_id |-> "manager-" \o ToString(i),
     is_active |-> TRUE]

\* mutant: duck typing, anything with an id passes for a Manager
isinstance_Manager_duck(x) == "id" \in DOMAIN x

\* isinstance(x, Manager)
isinstance_Manager(x) == x.cls = "Manager"

----------------------------------------------------------------------------
(* login_manager *)

\* what the collaborators of one login_manager call hand back
LoginOracles ==
    [fault : 0..6,
     manager : ManagerTable \cup {None},
     token : {None, PyStr(""), PyStr("jwt.session")},
     refresh_token : {None, PyStr(""), PyStr("jwt.refresh")}]

\* mutant: the lookup miss reported with the status of a bad credential
ManagerNotFound_as_unauthorized ==
    HTTPException(HTTP_401_UNAUTHORIZED, "No manager found with given email")

\* lines 65-70: the lookup came back empty
ManagerNotFound ==
    HTTPException(HTTP_404_NOT_FOUND, "No manager found with given email")

\* lines 76-81: the verifier rejected the password
PasswordNotMatched ==
    HTTPException(HTTP_401_UNAUTHORIZED, "Password not matched")

\* mutant: `if token is None`, which lets an empty token through
token_failed_only_None(token) == token = None

\* line 91: `if not token`
token_failed(token) == Falsy(token)

\* mutant: the refresh token is not looked at before the cookies are set
refresh_token_failed_never(refresh_token) == FALSE

\* line 99: `if not refresh_token`
refresh_token_failed(refresh_token) == Falsy(refresh_token)

\* lines 106-115
session_cookie(token) ==
    [key |-> "token", value |-> token, httponly |-> TRUE, secure |-> FALSE,
     samesite |-> "lax", max_age |-> 24 * 60 * 60]
\* mutant: the second cookie written under the key of the first
refresh_cookie_same_key(refresh_token) ==
    [key |-> "token", value |-> refresh_token, httponly |-> TRUE,
     secure |-> TRUE, samesite |-> "lax", max_age |-> 7 * 24 * 60 * 60]

\* lines 116-123
refresh_cookie(refresh_token) ==
    [key |-> "refresh_token", value |-> refresh_token, httponly |-> TRUE,
     secure |-> TRUE, samesite |-> "lax", max_age |-> 7 * 24 * 60 * 60]

\* lines 127-132: User(id=..., name=..., email=..., role="manager")
login_user_view(manager) ==
    [id |-> manager.id, name |-> manager.name, email |-> manager.email,
     role |-> "manager"]

\* lines 83-90: the claims of the session token
session_claims(manager) ==
    [id |-> manager.id, name |-> manager.name, email |-> manager.email,
     role |-> "manager"]

\* lines 62-133, the body of the try
login_manager_body(email, password, o) ==
    LET manager == Out(o, 1, o.manager)
        k1 == <<Call("repo", "get_manager", email, manager)>>
    IN
    IF IsRaised(manager) THEN Done(Uncaught(manager.text), k1, <<>>)
    ELSE IF Falsy(manager) THEN Done(ManagerNotFound, k1, <<>>)
    ELSE
    LET is_password_correct ==
            Out(o, 2, PyBool(pwd_context_verify(password, manager.password)))
        k2 == Append(k1, Call("pwd_context", "verify",
                              <<password, manager.password>>, is_password_correct))
    IN
    IF IsRaised(is_password_correct)
    THEN Done(Uncaught(is_password_correct.text), k2, <<>>)
    ELSE IF Falsy(is_password_correct) THEN Done(PasswordNotMatched, k2, <<>>)
    ELSE
    LET token == Out(o, 3, o.token)
        k3 == Append(k2, Call("jwt_util", "create_jwt_token",
                              session_claims(manager), token))
    IN
    IF IsRaised(token) THEN Done(Uncaught(token.text), k3, <<>>)
    ELSE IF token_failed(token)
    THEN Done(HTTPException(HTTP_500_INTERNAL_SERVER_ERROR,
                            "Failed to generate JWT token"), k3, <<>>)
    ELSE
    LET refresh_token == Out(o, 4, o.refresh_token)
        k4 == Append(k3, Call("jwt_util", "create_refresh_token",
                              [id |-> manager.id], refresh_token))
    IN
    IF IsRaised(refresh_token) THEN Done(Uncaught(refresh_token.text), k4, <<>>)
    ELSE IF refresh_token_failed(refresh_token)
    THEN Done(HTTPException(HTTP_500_INTERNAL_SERVER_ERROR,
                            "Failed to generate refresh token"), k4, <<>>)
    ELSE
    LET set1 == Out(o, 5, None)
        k5 == Append(k4, Call("response", "set_cookie",
                              session_cookie(token), set1))
        ck1 == <<session_cookie(token)>>
    IN
    IF IsRaised(set1) THEN Done(Uncaught(set1.text), k5, <<>>)
    ELSE
    LET set2 == Out(o, 6, None)
        k6 == Append(k5, Call("response", "set_cookie",
                              refresh_cookie(refresh_token), set2))
        ck2 == Append(ck1, refresh_cookie(refresh_token))
    IN
    IF IsRaised(set2) THEN Done(Uncaught(set2.text), k6, ck1)
    ELSE Done(Return([success |-> TRUE,
                      message |-> "Manager logged in succesfully.",
                      user |-> login_user_view(manager)]), k6, ck2)

\* lines 45-141
login_manager(email, password, o) ==
    try_except(login_manager_body(email, password, o),
               "Internal server error occurred while manager login")

Emails == {ManagerRow(i).email : i \in ManagerIds} \cup {"nobody@corp.io"}
Passwords == {PlainPassword(i) : i \in ManagerIds} \cup {"wrong"}

----------------------------------------------------------------------------
(* analytics *)

CounsellorRow(i) ==
    [cls |-> "Counsellor",
     id |-> "counsellor-" \o ToString(i),
     name |-> "Counsellor " \o ToString(i),
     email |-> "c" \o ToString(i) \o "@corp.io",
     manager_id |-> "manager-" \o ToString(i),
     is_active |-> TRUE,
     auditor_id |-> "auditor-" \o ToString(i)]

\* an AuditReport row with a flag set, as the flagged-audit queries return it
FlaggedAuditRow(i) ==
    [cls |-> "AuditReport",
     id |-> "audit-" \o ToString(i),
     call_id |-> "call-" \o ToString(i),
     flag |-> "FATAL"]

\* the callers an analytics method can be handed: a Manager, or something else
Principals == ManagerTable \cup {AuditorRow(1), None}

\* mutant: getattr(manager, "id", None), which never raises
attr_id_default_None(x) ==
    IF "id" \in DOMAIN x THEN PyStr(x.id) ELSE None

\* `manager.id`: AttributeError on an object without the attribute
attr_id(x) ==
    IF "id" \in DOMAIN x THEN PyStr(x.id)
    ELSE [cls |-> "Exception",
          text |-> "'" \o x.cls \o "' object has no attribute 'id'"]

\* `d[key]`: KeyError on a dict without the key
dict_get(d, key) ==
    IF key \in DOMAIN d.map THEN d.map[key]
    ELSE [cls |-> "Exception", text |-> "KeyError: " \o key]

Counts == {PyInt(n) : n \in 0..MaxCount}
EmptyDict == PyDict([k \in {} |-> None])
AuditorRosters == {PyList([i \in 1..n |-> AuditorRow(i)]) : n \in 0..MaxRows}
CounsellorRosters == {PyList([i \in 1..n |-> CounsellorRow(i)]) : n \in 0..MaxRows}
FlaggedAuditLists == {PyList([i \in 1..n |-> FlaggedAuditRow(i)]) : n \in 0..MaxRows}
\* one entry per day that has audited calls
DaySeries == {PyList([i \in 1..n |-> [day |-> i, audited_calls |-> 1]]) : n \in 0..MaxRows}

ManagerAnalyticsOracles ==
    [fault : 0..5,
     leads : Counts \cup {None},
     audits : Counts \cup {None},
     flagged_calls : Counts \cup {None},
     latest_flagged_audit : FlaggedAuditLists \cup {None},
     last_7_days_data : DaySeries \cup {None}]

\* lines 157-162
NotAuthorizedAsManager ==
    HTTPException(HTTP_403_FORBIDDEN, "Current user is not authorized as manager")

\* mutant: the check covers the four values its log message names, not the fifth
any_is_None_first_four(xs) == \E i \in DOMAIN xs : i <= 4 /\ xs[i] = None

\* lines 169-178: any(x is None for x in [...])
any_is_None(xs) == \E i \in DOMAIN xs : xs[i] = None

\* lines 156-192, the body of the try
get_manager_analytics_body(manager, o) ==
    IF ~isinstance_Manager(manager) THEN Done(NotAuthorizedAsManager, <<>>, <<>>)
    ELSE
    LET id == PyStr(manager.id)
        leads == Out(o, 1, o.leads)
        k1 == <<Call("repo", "get_all_leads", id, leads)>>
        audits == Out(o, 2, o.audits)
        k2 == Append(k1, Call("repo", "get_all_audit", id, audits))
        flagged_calls == Out(o, 3, o.flagged_calls)
        k3 == Append(k2, Call("repo", "get_all_flagged_call", id, flagged_calls))
        latest_flagged_audit == Out(o, 4, o.latest_flagged_audit)
        k4 == Append(k3, Call("repo", "get_all_latest_flagged_audit", id,
                              latest_flagged_audit))
        last_7_days_data == Out(o, 5, o.last_7_days_data)
        k5 == Append(k4, Call("repo", "get_last_7_days_audited_calls", id,
                              last_7_days_data))
    IN
    IF IsRaised(leads) THEN Done(Uncaught(leads.text), k1, <<>>)
    ELSE IF IsRaised(audits) THEN Done(Uncaught(audits.text), k2, <<>>)
    ELSE IF IsRaised(flagged_calls) THEN Done(Uncaught(flagged_calls.text), k3, <<>>)
    ELSE IF IsRaised(latest_flagged_audit)
    THEN Done(Uncaught(latest_flagged_audit.text), k4, <<>>)
    ELSE IF IsRaised(last_7_days_data)
    THEN Done(Uncaught(last_7_days_data.text), k5, <<>>)
    ELSE IF any_is_None(<<leads, audits, flagged_calls, latest_flagged_audit,
                          last_7_days_data>>)
    THEN Done(HTTPException(HTTP_500_INTERNAL_SERVER_ERROR,
                  "Internal server error while fetching data from database"),
              k5, <<>>)
    ELSE Done(Return([success |-> TRUE,
                      message |-> "Succesfully analyzed audits for manager",
                      flagged_calls |-> flagged_calls,
                      latest_flagged_audit |-> latest_flagged_audit,
                      last_7_days_data |-> last_7_days_data,
                      total_assigned_leads |-> leads,
                      total_audited_calls |-> audits]), k5, <<>>)

\* lines 143-200
get_manager_analytics(manager, o) ==
    try_except(get_manager_analytics_body(manager, o),
               "Internal server error while getting manager analysis for manager")

AuditorsData ==
    {None, EmptyDict, PyDict([number_of_auditors |-> PyInt(1)])}
    \cup {PyDict([total_audited_calls |-> c, number_of_auditors |-> n]) :
            n \in Counts, c \in Counts}

AuditorsAnalyticsOracles ==
    [fault : 0..2,
     auditors_data : AuditorsData,
     auditors : AuditorRosters \cup {None}]

\* mutant: `if auditors_data is None or auditors is None`
auditors_missing_only_None(auditors_data, auditors) ==
    auditors_data = None \/ auditors = None

\* line 220: `if not auditors_data or not auditors`
auditors_missing(auditors_data, auditors) ==
    Falsy(auditors_data) \/ Falsy(auditors)

\* lines 215-232, the body of the try
get_auditors_analytics_body(manager, o) ==
    LET id == attr_id(manager) IN
    IF IsRaised(id) THEN Done(Uncaught(id.text), <<>>, <<>>)
    ELSE
    LET auditors_data == Out(o, 1, o.auditors_data)
        k1 == <<Call("repo", "get_auditor_and_audited_call_counts", id,
                     auditors_data)>>
        auditors == Out(o, 2, o.auditors)
        k2 == Append(k1, Call("repo", "get_auditors", id, auditors))
    IN
    IF IsRaised(auditors_data) THEN Done(Uncaught(auditors_data.text), k1, <<>>)
    ELSE IF IsRaised(auditors) THEN Done(Uncaught(auditors.text), k2, <<>>)
    ELSE IF auditors_missing(auditors_data, auditors)
    THEN Done(HTTPException(HTTP_500_INTERNAL_SERVER_ERROR,
                  "Internal server error occurred while  getting auditors data"),
              k2, <<>>)
    ELSE
    LET number_of_auditors == dict_get(auditors_data, "number_of_auditors")
        total_audited_calls == dict_get(auditors_data, "total_audited_calls")
    IN
    IF IsRaised(number_of_auditors)
    THEN Done(Uncaught(number_of_auditors.text), k2, <<>>)
    ELSE IF IsRaised(total_audited_calls)
    THEN Done(Uncaught(total_audited_calls.text), k2, <<>>)
    ELSE Done(Return([success |-> TRUE,
                      message |-> "Succesfully got the auditors data under manager",
                      total_audited_calls |-> total_audited_calls,
                      number_of_auditors |-> number_of_auditors,
                      auditors |-> auditors]), k2, <<>>)

\* lines 202-242
get_auditors_analytics(manager, o) ==
    try_except(get_auditors_analytics_body(manager, o),
               "Internal server error while getting audit analysis.")

CounsellorData ==
    {None, EmptyDict, PyDict([total_calls_made |-> PyInt(1)])}
    \cup {PyDict([total_calls_made |-> c, total_counsellors |-> n]) :
            n \in Counts, c \in Counts}

CounsellorAnalysisOracles ==
    [fault : 0..2,
     counsellor_data : CounsellorData,
     counsellors : CounsellorRosters \cup {None}]

\* line 260: `if not counsellors or not counsellor_data`
counsellors_missing(counsellor_data, counsellors) ==
    Falsy(counsellors) \/ Falsy(counsellor_data)

\* mutant: total_calls_made read from a key of its own
total_calls_made_own_key == "total_calls_made"

\* line 270: total_calls_made=counsellor_data["total_counsellors"]
total_calls_made_key == "total_counsellors"

\* lines 257-272, the body of the try
get_counsellor_analysis_body(manager, o) ==
    LET id == attr_id(manager) IN
    IF IsRaised(id) THEN Done(Uncaught(id.text), <<>>, <<>>)
    ELSE
    LET counsellor_data == Out(o, 1, o.counsellor_data)
        k1 == <<Call("repo", "get_counsellor_data", id, counsellor_data)>>
        counsellors == Out(o, 2, o.counsellors)
        k2 == Append(k1, Call("repo", "get_counsellors", id, counsellors))
    IN
    IF IsRaised(counsellor_data) THEN Done(Uncaught(counsellor_data.text), k1, <<>>)
    ELSE IF IsRaised(counsellors) THEN Done(Uncaught(counsellors.text), k2, <<>>)
    ELSE IF counsellors_missing(counsellor_data, counsellors)
    THEN Done(HTTPException(HTTP_500_INTERNAL_SERVER_ERROR,
                  "Internal sever error occurred while fetching counsellor data"),
              k2, <<>>)
    ELSE
    LET total_counsellors == dict_get(counsellor_data, "total_counsellors")
        total_calls_made == dict_get(counsellor_data, total_calls_made_key)
    IN
    IF IsRaised(total_counsellors)
    THEN Done(Uncaught(total_counsellors.text), k2, <<>>)
    ELSE IF IsRaised(total_calls_made)
    THEN Done(Uncaught(total_calls_made.text), k2, <<>>)
    ELSE Done(Return([success |-> TRUE,
                      message |-> "Succesfully retrieved counsellors data",
                      total_calls_made |-> total_calls_made,
                      total_counsellors |-> total_counsellors,
                      counsellors |-> counsellors]), k2, <<>>)

\* lines 244-282
get_counsellor_analysis(manager, o) ==
    try_except(get_counsellor_analysis_body(manager, o),
               "Internal server error while getting counsellor analysis.")

FlaggedAuditsOracles ==
    [fault : 0..1,
     flagged_audits : FlaggedAuditLists \cup {None}]

\* mutant: the empty-list branch is gone
is_empty_list_never(flagged_audits) == FALSE

\* line 300: `if flagged_audits == []`
is_empty_list(flagged_audits) == flagged_audits = PyList(<<>>)

\* line 306: `if not flagged_audits`
flagged_audits_failed(flagged_audits) == Falsy(flagged_audits)

\* lines 297-316, the body of the try
get_flagged_audits_body(manager, o) ==
    LET id == attr_id(manager) IN
    IF IsRaised(id) THEN Done(Uncaught(id.text), <<>>, <<>>)
    ELSE
    LET flagged_audits == Out(o, 1, o.flagged_audits)
        k1 == <<Call("repo", "get_all_latest_flagged_audit", id, flagged_audits)>>
    IN
    IF IsRaised(flagged_audits) THEN Done(Uncaught(flagged_audits.text), k1, <<>>)
    ELSE IF is_empty_list(flagged_audits)
    THEN Done(Return([success |-> TRUE,
                      message |-> "Succesfully retrieved the flagged audits",
                      flagged_audits |-> flagged_audits]), k1, <<>>)
    ELSE IF flagged_audits_failed(flagged_audits)
    THEN Done(HTTPException(HTTP_500_INTERNAL_SERVER_ERROR,
                  "Internal server error occurred while fetching flagged audits."),
              k1, <<>>)
    ELSE Done(Return([success |-> TRUE,
                      message |-> "Successfully retrieved the flagged audits",
                      flagged_audits |-> flagged_audits]), k1, <<>>)

\* lines 284-324
get_flagged_audits(manager, o) ==
    try_except(get_flagged_audits_body(manager, o),
               "Internal server error while getting flagged audits.")

----------------------------------------------------------------------------
(* user provisioning *)

\* string.ascii_lowercase, ascii_uppercase, digits, punctuation: a few
\* characters of each class stand for the whole class
ascii_lowercase == {"a", "b"}
ascii_uppercase == {"Q"}
digits == {"7"}
punctuation == {"!"}
\* line 493
all_chars == ascii_lowercase \cup ascii_uppercase \cup digits \cup punctuation

\* "".join(chars)
RECURSIVE join(_)
join(chars) == IF chars = <<>> THEN "" ELSE Head(chars) \o join(Tail(chars))

\* the random draws of one password generation: the four random.choice
\* results, the random.choices fill and the permutation random.shuffle applies
RandomDraws(length) ==
    [lower : ascii_lowercase,
     upper : ascii_uppercase,
     digit : digits,
     punct : punctuation,
     rest : [1..(length - 4) -> all_chars],
     perm : Permutations(1..length)]

\* mutant: the fourth guaranteed character is a second lowercase letter
guaranteed_chars_no_punctuation(r) == <<r.lower, r.upper, r.digit, r.lower>>

\* lines 486-491: one character of each class
guaranteed_chars(r) == <<r.lower, r.upper, r.digit, r.punct>>

\* line 496: random.shuffle(password), an in-place permutation of the list
shuffle(password, perm) == [i \in 1..Len(password) |-> password[perm[i]]]

\* lines 486-496: the list `password` as it stands before the join
password_list(length, r) ==
    shuffle(guaranteed_chars(r) \o [i \in 1..(length - 4) |-> r.rest[i]], r.perm)

\* lines 468-497; a ValueError is what comes back for length < 4
generate_strong_password(length, r) ==
    IF length < 4
    THEN [cls |-> "Exception",
          text |-> "Password length should be at least 4 to include all character types."]
    ELSE PyStr(join(password_list(length, r)))

\* one call of __generate_strong_password seen from its caller: the ValueError
\* leaves the method, or the string is returned; the shuffled list is logged
generate_strong_password_run(length, r) ==
    LET generated == generate_strong_password(length, r) IN
    IF IsRaised(generated)
    THEN Done(Uncaught(generated.text), <<>>, <<>>)
    ELSE Done(Return(generated),
              <<Call("random", "shuffle", None, PyList(password_list(length, r)))>>,
              <<>>)

PasswordLengths == 0..MaxPasswordLength

\* what a repository write hands back
RepoFlags == {PyBool(TRUE), PyBool(FALSE), None}

AddUserOracles ==
    [fault : 0..2,
     salt : Salts,
     draws : RandomDraws(PasswordLength),
     created : RepoFlags]

\* line 405: `if not is_auditor_created`
auditor_not_created(is_auditor_created) == Falsy(is_auditor_created)

\* lines 411-415: the password field of the response is auditor_data["password"]
new_auditor_response(auditor_data) ==
    [password |-> auditor_data.password,
     success |-> TRUE,
     message |-> "Auditor created succesfully"]

\* lines 398-415, the body of the try
create_new_auditor_body(auditor_data, o) ==
    LET generated == generate_strong_password(PasswordLength, o.draws) IN
    IF IsRaised(generated) THEN Done(Uncaught(generated.text), <<>>, <<>>)
    ELSE
    \* line 400: auditor_data["password"] = self.__generate_strong_password()
    LET data1 == [auditor_data EXCEPT !.password = generated]
        \* line 402: auditor_data["password"] = pwd_context.hash(auditor_data["password"])
        hashed == Out(o, 1, PyStr(pwd_context_hash(data1.password.s, o.salt)))
        k1 == <<Call("pwd_context", "hash", data1.password, hashed)>>
    IN
    IF IsRaised(hashed) THEN Done(Uncaught(hashed.text), k1, <<>>)
    ELSE
    LET data2 == [data1 EXCEPT !.password = hashed]
        is_auditor_created == Out(o, 2, o.created)
        k2 == Append(k1, Call("repo", "create_auditor", data2, is_auditor_created))
    IN
    IF IsRaised(is_auditor_created)
    THEN Done(Uncaught(is_auditor_created.text), k2, <<>>)
    ELSE IF auditor_not_created(is_auditor_created)
    THEN Done(HTTPException(HTTP_500_INTERNAL_SERVER_ERROR,
                  "Internal server error occurred while creating new auditor"),
              k2, <<>>)
    ELSE Done(Return(new_auditor_response(data2)), k2, <<>>)

\* lines 385-423
create_new_auditor(auditor_data, o) ==
    try_except(create_new_auditor_body(auditor_data, o),
               "Internal server error occurred while creating new auditor")

\* mutant: `if counsellor_data["auditor_id"] is None`
auditor_id_missing_only_None(counsellor_data) == counsellor_data.auditor_id = None

\* line 441: `if not counsellor_data["auditor_id"]`
auditor_id_missing(counsellor_data) == Falsy(counsellor_data.auditor_id)

\* line 448: `if not is_counsellor_created`
counsellor_not_created(is_counsellor_created) == Falsy(is_counsellor_created)

\* lines 440-458, the body of the try
create_new_counsellor_body(counsellor_data, o) ==
    IF auditor_id_missing(counsellor_data)
    THEN Done(HTTPException(HTTP_500_INTERNAL_SERVER_ERROR,
                  "Auditor ID needed for creating counsellor"), <<>>, <<>>)
    ELSE
    LET is_counsellor_created == Out(o, 1, o.created)
        k1 == <<Call("repo", "create_counsellor", counsellor_data,
                     is_counsellor_created)>>
    IN
    IF IsRaised(is_counsellor_created)
    THEN Done(Uncaught(is_counsellor_created.text), k1, <<>>)
    ELSE IF counsellor_not_created(is_counsellor_created)
    THEN Done(HTTPException(HTTP_500_INTERNAL_SERVER_ERROR,
                  "Internal server error occurred while creating new counsellor"),
              k1, <<>>)
    ELSE Done(Return([password |-> PyStr("Not needed"),
                      success |-> TRUE,
                      message |-> "Counsellor created succesfully"]), k1, <<>>)

\* lines 425-466
create_new_counsellor(counsellor_data, o) ==
    try_except(create_new_counsellor_body(counsellor_data, o),
               "Internal server error occurred while creating new counsellor")

\* mutant: a plain `else` where the code has `elif role == "counsellor"`
role_is_counsellor_else(role) == role # "auditor"

\* line 362: `elif role == "counsellor"`
role_is_counsellor(role) == role = "counsellor"

\* lines 352-375, the body of the try; the dict of the auditor branch has no
\* "password" key until create_new_auditor sets it (None stands for the absent key)
add_new_user_body(role, name, email, phone, auditor_id, manager_id, o) ==
    IF role = "auditor"
    THEN create_new_auditor([name |-> name, email |-> email, phone |-> phone,
                             password |-> None, manager_id |-> manager_id], o)
    ELSE IF role_is_counsellor(role)
    THEN create_new_counsellor([name |-> name, email |-> email, phone |-> phone,
                                manager_id |-> manager_id,
                                auditor_id |-> auditor_id], o)
    ELSE Done(HTTPException(HTTP_400_BAD_REQUEST,
                  "No matching role to add, the role should be auditor or counsellor"),
              <<>>, <<>>)

\* lines 326-383
add_new_user(role, name, email, phone, auditor_id, manager_id, o) ==
    try_except(add_new_user_body(role, name, email, phone, auditor_id, manager_id, o),
               "Internal server error occurred while creating new auditor or counsellor")

Roles == {"auditor", "counsellor", "manager"}
AuditorIdArgs == {PyStr(""), None, PyStr(AuditorRow(1).id)}

----------------------------------------------------------------------------
(* activation and deactivation, services.py lines 499-729 *)

\* what the repository's flip of is_active hands back, or that it raises
ToggleOracles == [fault : 0..1, changed : RepoFlags]

\* f"{x}" of a value
str(x) ==
    CASE x.cls = "str" -> x.s
      [] x.cls = "NoneType" -> "None"
      [] OTHER -> "?"

\* mutant: `if auditor_id is None`
id_missing_only_None(id) == id = None

\* lines 513, 553, 593, 633: `if not auditor_id`, `if not counsellor_id`
id_missing(id) == Falsy(id)

\* lines 520, 560, 600, 640: `if not is_auditor_deleted` and its three siblings
flip_failed(is_changed) == Falsy(is_changed)

\* mutant: a hard delete where the code flips is_active
repo_delete_auditor(auditor_id, o) ==
    Call("repo", "delete_auditor", auditor_id, Out(o, 1, o.changed))

\* line 519: self.repo.deactivate_auditor(auditor_id)
repo_deactivate_auditor(auditor_id, o) ==
    Call("repo", "deactivate_auditor", auditor_id, Out(o, 1, o.changed))

\* lines 513-529, the body of the try
deactivate_auditor_body(auditor_id, o) ==
    IF id_missing(auditor_id)
    THEN Done(HTTPException(HTTP_500_INTERNAL_SERVER_ERROR, "Auditor id not found"),
              <<>>, <<>>)
    ELSE
    LET k1 == <<repo_deactivate_auditor(auditor_id, o)>>
        is_auditor_deleted == k1[1].out
    IN
    IF IsRaised(is_auditor_deleted)
    THEN Done(Uncaught(is_auditor_deleted.text), k1, <<>>)
    ELSE IF flip_failed(is_auditor_deleted)
    THEN Done(HTTPException(HTTP_500_INTERNAL_SERVER_ERROR,
                  "Internal server error occurred while deactivating auditor"),
              k1, <<>>)
    ELSE Done(Return([success |-> TRUE,
                      message |-> "Succesfully deactivated auditor with id: " \o str(auditor_id)]),
              k1, <<>>)

\* lines 499-537
deactivate_auditor(auditor_id, o) ==
    try_except(deactivate_auditor_body(auditor_id, o),
               "Internal server error occurred while deactivating auditor")

\* line 559: self.repo.activate_auditor(auditor_id)
repo_activate_auditor(auditor_id, o) ==
    Call("repo", "activate_auditor", auditor_id, Out(o, 1, o.changed))

\* lines 553-569, the body of the try
activate_auditor_body(auditor_id, o) ==
    IF id_missing(auditor_id)
    THEN Done(HTTPException(HTTP_500_INTERNAL_SERVER_ERROR, "Auditor id not found"),
              <<>>, <<>>)
    ELSE
    LET k1 == <<repo_activate_auditor(auditor_id, o)>>
        is_auditor_deleted == k1[1].out
    IN
    IF IsRaised(is_auditor_deleted)
    THEN Done(Uncaught(is_auditor_deleted.text), k1, <<>>)
    ELSE IF flip_failed(is_auditor_deleted)
    THEN Done(HTTPException(HTTP_500_INTERNAL_SERVER_ERROR,
                  "Internal server error occurred while activating auditor"),
              k1, <<>>)
    ELSE Done(Return([success |-> TRUE,
                      message |-> "Succesfully activated auditor with id: " \o str(auditor_id)]),
              k1, <<>>)

\* lines 539-577
activate_auditor(auditor_id, o) ==
    try_except(activate_auditor_body(auditor_id, o),
               "Internal server error occurred while activating auditor")

\* line 599: self.repo.deactivate_counsellor(counsellor_id)
repo_deactivate_counsellor(counsellor_id, o) ==
    Call("repo", "deactivate_counsellor", counsellor_id, Out(o, 1, o.changed))

\* lines 593-609, the body of the try
deactivate_counsellor_body(counsellor_id, o) ==
    IF id_missing(counsellor_id)
    THEN Done(HTTPException(HTTP_500_INTERNAL_SERVER_ERROR, "Counsellor id not found"),
              <<>>, <<>>)
    ELSE
    LET k1 == <<repo_deactivate_counsellor(counsellor_id, o)>>
        is_counsellor_deleted == k1[1].out
    IN
    IF IsRaised(is_counsellor_deleted)
    THEN Done(Uncaught(is_counsellor_deleted.text), k1, <<>>)
    ELSE IF flip_failed(is_counsellor_deleted)
    THEN Done(HTTPException(HTTP_500_INTERNAL_SERVER_ERROR,
                  "Internal server error occurred while deactivate counsellor"),
              k1, <<>>)
    ELSE Done(Return([success |-> TRUE,
                      message |-> "Succesfully deactivate counsellor with id: " \o str(counsellor_id)]),
              k1, <<>>)

\* lines 579-617
deactivate_counsellor(counsellor_id, o) ==
    try_except(deactivate_counsellor_body(counsellor_id, o),
               "Internal server error occurred while deactivating counsellor")

\* line 639: self.repo.activate_counsellor(counsellor_id)
repo_activate_counsellor(counsellor_id, o) ==
    Call("repo", "activate_counsellor", counsellor_id, Out(o, 1, o.changed))

\* lines 633-649, the body of the try
activate_counsellor_body(counsellor_id, o) ==
    IF id_missing(counsellor_id)
    THEN Done(HTTPException(HTTP_500_INTERNAL_SERVER_ERROR, "Counsellor id not found"),
              <<>>, <<>>)
    ELSE
    LET k1 == <<repo_activate_counsellor(counsellor_id, o)>>
        is_counsellor_deleted == k1[1].out
    IN
    IF IsRaised(is_counsellor_deleted)
    THEN Done(Uncaught(is_counsellor_deleted.text), k1, <<>>)
    ELSE IF flip_failed(is_counsellor_deleted)
    THEN Done(HTTPException(HTTP_500_INTERNAL_SERVER_ERROR,
                  "Internal server error occurred while activate counsellor"),
              k1, <<>>)
    ELSE Done(Return([success |-> TRUE,
                      message |-> "Succesfully activated counsellor with id: " \o str(counsellor_id)]),
              k1, <<>>)

\* lines 619-657
activate_counsellor(counsellor_id, o) ==
    try_except(activate_counsellor_body(counsellor_id, o),
               "Internal server error occurred while activating counsellor")

CounsellorIdArgs == {PyStr(""), None, PyStr(CounsellorRow(1).id)}

\* lines 677-685, the body of the try
deactivate_auditor_or_counsellor_body(counsellor_id, auditor_id, role, o) ==
    IF role = "auditor"
    THEN deactivate_auditor(auditor_id, o)
    ELSE IF role = "counsellor"
    THEN deactivate_counsellor(counsellor_id, o)
    ELSE Done(HTTPException(HTTP_400_BAD_REQUEST, "No valid role to deactivate"),
              <<>>, <<>>)

\* lines 659-693
deactivate_auditor_or_counsellor(counsellor_id, auditor_id, role, o) ==
    try_except(deactivate_auditor_or_counsellor_body(counsellor_id, auditor_id, role, o),
               "Internal server error occurred while deactivating auditor or counsellor")

\* mutant: the counsellor branch copied over from the deactivate wrapper
activate_auditor_or_counsellor_body_copied(counsellor_id, auditor_id, role, o) ==
    IF role = "auditor"
    THEN activate_auditor(auditor_id, o)
    ELSE IF role = "counsellor"
    THEN deactivate_counsellor(counsellor_id, o)
    ELSE Done(HTTPException(HTTP_400_BAD_REQUEST, "No valid role to activate"),
              <<>>, <<>>)

\* lines 713-721, the body of the try
activate_auditor_or_counsellor_body(counsellor_id, auditor_id, role, o) ==
    IF role = "auditor"
    THEN activate_auditor(auditor_id, o)
    ELSE IF role = "counsellor"
    THEN activate_counsellor(counsellor_id, o)
    ELSE Done(HTTPException(HTTP_400_BAD_REQUEST, "No valid role to activate"),
              <<>>, <<>>)

\* lines 695-729
activate_auditor_or_counsellor(counsellor_id, auditor_id, role, o) ==
    try_except(activate_auditor_or_counsellor_body(counsellor_id, auditor_id, role, o),
               "Internal server error occurred while activating auditor or counsellor")

----------------------------------------------------------------------------
(* audit unflagging and manager creation, services.py lines 731-791 *)

UnflagOracles == [fault : 0..1, unflagged : RepoFlags]
AuditIdArgs == {PyStr(FlaggedAuditRow(1).id), None}

\* mutant: the repository's answer is not looked at
unflag_failed_never(is_unflagged) == FALSE

\* line 753: `if not is_unflagged`
unflag_failed(is_unflagged) == Falsy(is_unflagged)

\* lines 746-762, the body of the try
unflag_flagged_audit_body(manager, audit_id, o) ==
    IF ~isinstance_Manager(manager)
    THEN Done(HTTPException(HTTP_401_UNAUTHORIZED,
                  "Unauthorised access, user is not manager."), <<>>, <<>>)
    ELSE
    LET is_unflagged == Out(o, 1, o.unflagged)
        k1 == <<Call("repo", "unflag_audit", audit_id, is_unflagged)>>
    IN
    IF IsRaised(is_unflagged)
    THEN Done(Uncaught(is_unflagged.text), k1, <<>>)
    ELSE IF unflag_failed(is_unflagged)
    THEN Done(HTTPException(HTTP_500_INTERNAL_SERVER_ERROR,
                  "Internal server error occurred while unflagging audit"),
              k1, <<>>)
    ELSE Done(Return([success |-> TRUE,
                      message |-> "Succesfully unflagged given audit with id: "
                                  \o str(audit_id)]),
              k1, <<>>)

\* lines 731-770
unflag_flagged_audit(manager, audit_id, o) ==
    try_except(unflag_flagged_audit_body(manager, audit_id, o),
               "Internal server error occurred while unflagging audit")

NewManagerOracles == [fault : 0..1, created : RepoFlags]
NewManagerData ==
    {[name |-> "Manager 9", email |-> "m9@corp.io", phone |-> "555-0199"]}

\* lines 774-783, the body of the try
add_new_manager_body(manager_data, o) ==
    LET is_created == Out(o, 1, o.created)
        k1 == <<Call("repo", "create_new_manager", manager_data, is_created)>>
    IN
    IF IsRaised(is_created)
    THEN Done(Uncaught(is_created.text), k1, <<>>)
    ELSE IF Falsy(is_created)
    THEN Done(HTTPException(HTTP_500_INTERNAL_SERVER_ERROR,
                  "Failed to create new manager"), k1, <<>>)
    ELSE Done(Return([success |-> TRUE,
                      message |-> "Manager created successfully."]), k1, <<>>)

\* lines 772-791
add_new_manager(manager_data, o) ==
    try_except(add_new_manager_body(manager_data, o),
               "Internal Server error occurred while creating new manager")

----------------------------------------------------------------------------
(* models.py: the tables, the relationship() declarations and what a       *)
(* delete does under them.  Each declaration is listed with the foreign    *)
(* key column it rests on: whether the relationship cascades deletes,      *)
(* whether it is passive_deletes, whether the column is nullable and       *)
(* whether the ForeignKey says ondelete="CASCADE".  The database enforces  *)
(* the declared NOT NULL and FOREIGN KEY constraints.                      *)

Rel(parent, child, fk, cascade, passive_deletes, ondelete) ==
    [parent |-> parent, child |-> child, fk |-> fk, cascade |-> cascade,
     passive_deletes |-> passive_deletes, ondelete |-> ondelete,
     nullable |-> FALSE]

\* mutant: Manager.auditors declared with cascade="all, delete-orphan"
ManagerRelationships_cascading ==
    {Rel("Manager", "Auditor", "manager_id", TRUE, FALSE, FALSE),
     Rel("Manager", "Counsellor", "manager_id", FALSE, FALSE, FALSE),
     Rel("Manager", "Call", "manager_id", FALSE, FALSE, FALSE),
     Rel("Manager", "AuditReport", "manager_id", FALSE, FALSE, FALSE),
     Rel("Manager", "Lead", "manager_id", FALSE, FALSE, FALSE)}

\* models.py lines 48-52 (columns: lines 65, 102, 149, 207, 234)
ManagerRelationships ==
    {Rel("Manager", "Auditor", "manager_id", FALSE, FALSE, FALSE),
     Rel("Manager", "Counsellor", "manager_id", FALSE, FALSE, FALSE),
     Rel("Manager", "Call", "manager_id", FALSE, FALSE, FALSE),
     Rel("Manager", "AuditReport", "manager_id", FALSE, FALSE, FALSE),
     Rel("Manager", "Lead", "manager_id", FALSE, FALSE, FALSE)}

\* models.py lines 76-86 (columns: lines 99-101, 146-148, 206, 233)
AuditorRelationships ==
    {Rel("Auditor", "Counsellor", "auditor_id", TRUE, FALSE, TRUE),
     Rel("Auditor", "Call", "auditor_id", TRUE, TRUE, TRUE),
     Rel("Auditor", "AuditReport", "auditor_id", FALSE, FALSE, FALSE),
     Rel("Auditor", "Lead", "auditor_id", FALSE, FALSE, FALSE)}

\* models.py lines 113-124 (columns: lines 143-145, 230-232)
CounsellorRelationships ==
    {Rel("Counsellor", "Call", "counsellor_id", TRUE, TRUE, TRUE),
     Rel("Counsellor", "Lead", "counsellor_id", TRUE, TRUE, TRUE)}

\* models.py lines 167-168 (columns: lines 181, 205)
CallRelationships ==
    {Rel("Call", "CallAnalysis", "call_id", FALSE, FALSE, FALSE),
     Rel("Call", "AuditReport", "call_id", FALSE, FALSE, FALSE)}

Relationships ==
    ManagerRelationships \cup AuditorRelationships
        \cup CounsellorRelationships \cup CallRelationships

\* the rows of table d that relationship rel makes children of row r
children(r, rel, d) ==
    IF r.cls # rel.parent THEN {}
    ELSE {c \in d : c.cls = rel.child /\ c[rel.fk] = r.id}

\* Session.delete: the delete cascades along the relationships that declare
\* it; a passive_deletes collection is followed only when it is loaded
RECURSIVE orm_deleted(_, _, _)
orm_deleted(D, loaded, d) ==
    LET more == {c \in d : \E r \in D, rel \in Relationships :
                     /\ rel.cascade
                     /\ loaded \/ ~rel.passive_deletes
                     /\ c \in children(r, rel, d)}
    IN IF more \subseteq D THEN D ELSE orm_deleted(D \cup more, loaded, d)

\* flush: a child that is not deleted, on a relationship without delete
\* cascade, gets its foreign key set to NULL
nullified(D, d) ==
    {c \in d \ D : \E r \in D, rel \in Relationships :
         ~rel.cascade /\ c \in children(r, rel, d)}

\* ... which the NOT NULL column refuses
not_null_violated(D, d) ==
    \E c \in nullified(D, d), r \in D, rel \in Relationships :
        c \in children(r, rel, d) /\ ~rel.cascade /\ ~rel.nullable

\* the DELETE statements: ON DELETE CASCADE removes the referencing rows
RECURSIVE db_deleted(_, _)
db_deleted(D, d) ==
    LET more == {c \in d : \E r \in D, rel \in Relationships :
                     rel.ondelete /\ c \in children(r, rel, d)}
    IN IF more \subseteq D THEN D ELSE db_deleted(D \cup more, d)

\* a foreign key without ondelete that still references a removed row
foreign_key_violated(D, d) ==
    \E c \in d \ D, r \in D, rel \in Relationships :
        ~rel.ondelete /\ c \in children(r, rel, d)

\* session.delete(row); session.commit(): all of it, or IntegrityError and
\* a rollback that leaves the tables as they were
session_delete(row, loaded, d) ==
    LET D == orm_deleted({row}, loaded, d)
        gone == db_deleted(D, d)
    IN IF not_null_violated(D, d) \/ foreign_key_violated(gone, d)
       THEN [ret |-> Uncaught("IntegrityError"), db |-> d]
       ELSE [ret |-> Return(None), db |-> d \ gone]

\* rows of the tables; auditor i belongs to a manager, and counsellor i, call i
\* and lead i hang below auditor i
AuditorIds == 1..NumAuditors
manager_of(i) == "manager-" \o ToString(((i - 1) % NumManagers) + 1)
ManagerRecord(i) == [cls |-> "Manager", id |-> "manager-" \o ToString(i)]
AuditorRecord(i) ==
    [cls |-> "Auditor", id |-> "auditor-" \o ToString(i),
     manager_id |-> manager_of(i)]
CounsellorRecord(i) ==
    [cls |-> "Counsellor", id |-> "counsellor-" \o ToString(i),
     manager_id |-> manager_of(i), auditor_id |-> "auditor-" \o ToString(i)]
CallRecord(i) ==
    [cls |-> "Call", id |-> "call-" \o ToString(i),
     manager_id |-> manager_of(i), auditor_id |-> "auditor-" \o ToString(i),
     counsellor_id |-> "counsellor-" \o ToString(i)]
LeadRecord(i) ==
    [cls |-> "Lead", id |-> "lead-" \o ToString(i),
     manager_id |-> manager_of(i), auditor_id |-> "auditor-" \o ToString(i),
     counsellor_id |-> "counsellor-" \o ToString(i)]
AuditReportRecord(i) ==
    [cls |-> "AuditReport", id |-> "audit-" \o ToString(i),
     manager_id |-> manager_of(i), auditor_id |-> "auditor-" \o ToString(i),
     call_id |-> "call-" \o ToString(i)]

AllRows ==
    {ManagerRecord(i) : i \in ManagerIds}
        \cup {AuditorRecord(i) : i \in AuditorIds}
        \cup {CounsellorRecord(i) : i \in AuditorIds}
        \cup {CallRecord(i) : i \in AuditorIds}
        \cup {LeadRecord(i) : i \in AuditorIds}
        \cup {AuditReportRecord(1)}

\* every foreign key of every row of d finds its row in d
references_resolve(d) ==
    \A c \in d : \A rel \in Relationships :
        c.cls = rel.child => \E r \in d : c \in children(r, rel, d)

Databases == {d \in SUBSET AllRows : references_resolve(d)}

----------------------------------------------------------------------------
(* the state machine *)

\* no request is being served
Idle == op = "idle"

\* the method of a request runs to completion
Request(name, a, run) ==
    /\ op' = name
    /\ args' = a
    /\ ret' = run.ret
    /\ calls' = run.calls
    /\ cookies' = run.cookies
    /\ prev' = prev
    /\ db' = db

\* the four methods of lines 499-657 and the id each was called with
ToggleOps ==
    {"deactivate_auditor", "activate_auditor",
     "deactivate_counsellor", "activate_counsellor"}
ToggleId ==
    IF op \in {"deactivate_auditor", "activate_auditor"}
    THEN args.auditor_id ELSE args.counsellor_id

NoPrev == [op |-> "none"]

Init ==
    /\ op = "idle"
    /\ args = <<>>
    /\ ret = [kind |-> "none"]
    /\ calls = <<>>
    /\ cookies = <<>>
    /\ prev = NoPrev
    /\ db = {}

\* the caller has its response or error; the request and its Response object end
Complete ==
    /\ op # "idle"
    /\ op' = "idle"
    /\ args' = <<>>
    /\ ret' = [kind |-> "none"]
    /\ calls' = <<>>
    /\ cookies' = <<>>
    /\ prev' = IF op \in ToggleOps /\ ~Falsy(ToggleId)
               THEN [op |-> op, kind |-> ret.kind, id |-> ToggleId]
               ELSE NoPrev
    /\ db' = db

LoginManager ==
    /\ Idle
    /\ \E email \in Emails, password \in Passwords, o \in LoginOracles :
           Request("login_manager", [email |-> email, password |-> password],
                   login_manager(email, password, o))

GetManagerAnalytics ==
    /\ Idle
    /\ \E manager \in Principals, o \in ManagerAnalyticsOracles :
           Request("get_manager_analytics", [manager |-> manager],
                   get_manager_analytics(manager, o))

GetAuditorsAnalytics ==
    /\ Idle
    /\ \E manager \in Principals, o \in AuditorsAnalyticsOracles :
           Request("get_auditors_analytics", [manager |-> manager],
                   get_auditors_analytics(manager, o))

GetCounsellorAnalysis ==
    /\ Idle
    /\ \E manager \in Principals, o \in CounsellorAnalysisOracles :
           Request("get_counsellor_analysis", [manager |-> manager],
                   get_counsellor_analysis(manager, o))

GetFlaggedAudits ==
    /\ Idle
    /\ \E manager \in Principals, o \in FlaggedAuditsOracles :
           Request("get_flagged_audits", [manager |-> manager],
                   get_flagged_audits(manager, o))

AddNewUser ==
    /\ Idle
    /\ \E role \in Roles, auditor_id \in AuditorIdArgs, m \in ManagerIds,
          o \in AddUserOracles :
           Request("add_new_user",
                   [name |-> "New User", email |-> "new@corp.io",
                    phone |-> "555-0100", manager_id |-> ManagerRow(m).id,
                    role |-> role, auditor_id |-> auditor_id],
                   add_new_user(role, "New User", "new@corp.io", "555-0100",
                                auditor_id, ManagerRow(m).id, o))

DeactivateAuditor ==
    /\ Idle
    /\ \E auditor_id \in AuditorIdArgs, o \in ToggleOracles :
           Request("deactivate_auditor", [auditor_id |-> auditor_id],
                   deactivate_auditor(auditor_id, o))

ActivateAuditor ==
    /\ Idle
    /\ \E auditor_id \in AuditorIdArgs, o \in ToggleOracles :
           Request("activate_auditor", [auditor_id |-> auditor_id],
                   activate_auditor(auditor_id, o))

DeactivateCounsellor ==
    /\ Idle
    /\ \E counsellor_id \in CounsellorIdArgs, o \in ToggleOracles :
           Request("deactivate_counsellor", [counsellor_id |-> counsellor_id],
                   deactivate_counsellor(counsellor_id, o))

ActivateCounsellor ==
    /\ Idle
    /\ \E counsellor_id \in CounsellorIdArgs, o \in ToggleOracles :
           Request("activate_counsellor", [counsellor_id |-> counsellor_id],
                   activate_counsellor(counsellor_id, o))

DeactivateAuditorOrCounsellor ==
    /\ Idle
    /\ \E counsellor_id \in CounsellorIdArgs, auditor_id \in AuditorIdArgs,
          role \in Roles, o \in ToggleOracles :
           Request("deactivate_auditor_or_counsellor",
                   [role |-> role, auditor_id |-> auditor_id,
                    counsellor_id |-> counsellor_id],
                   deactivate_auditor_or_counsellor(counsellor_id, auditor_id, role, o))

ActivateAuditorOrCounsellor ==
    /\ Idle
    /\ \E counsellor_id \in CounsellorIdArgs, auditor_id \in AuditorIdArgs,
          role \in Roles, o \in ToggleOracles :
           Request("activate_auditor_or_counsellor",
                   [role |-> role, auditor_id |-> auditor_id,
                    counsellor_id |-> counsellor_id],
                   activate_auditor_or_counsellor(counsellor_id, auditor_id, role, o))

UnflagFlaggedAudit ==
    /\ Idle
    /\ \E manager \in Principals, audit_id \in AuditIdArgs, o \in UnflagOracles :
           Request("unflag_flagged_audit", [manager |-> manager, audit_id |-> audit_id],
                   unflag_flagged_audit(manager, audit_id, o))

AddNewManager ==
    /\ Idle
    /\ \E manager_data \in NewManagerData, o \in NewManagerOracles :
           Request("add_new_manager", [manager_data |-> manager_data],
                   add_new_manager(manager_data, o))

GenerateStrongPassword ==
    /\ Idle
    /\ \E length \in PasswordLengths :
           \E r \in RandomDraws(length) :
               Request("generate_strong_password", [length |-> length, draws |-> r],
                       generate_strong_password_run(length, r))

Next ==
    \/ LoginManager
    \/ GetManagerAnalytics
    \/ GetAuditorsAnalytics
    \/ GetCounsellorAnalysis
    \/ GetFlaggedAudits
    \/ AddNewUser
    \/ DeactivateAuditor
    \/ ActivateAuditor
    \/ DeactivateCounsellor
    \/ ActivateCounsellor
    \/ DeactivateAuditorOrCounsellor
    \/ ActivateAuditorOrCounsellor
    \/ UnflagFlaggedAudit
    \/ AddNewManager
    \/ Complete

Spec == Init /\ [][Next]_vars

\* the password generator on its own, over every length and every random draw
PasswordNext ==
    \/ GenerateStrongPassword
    \/ Complete

SpecPassword == Init /\ [][PasswordNext]_vars

\* the tables on their own, under any sequence of deletes
CascadeInit ==
    /\ op = "idle"
    /\ args = <<>>
    /\ ret = [kind |-> "none"]
    /\ calls = <<>>
    /\ cookies = <<>>
    /\ prev = NoPrev
    /\ db \in Databases

Delete(row, loaded) ==
    LET run == session_delete(row, loaded, db) IN
    /\ op' = "delete"
    /\ args' = [loaded |-> loaded, row |-> row, before |-> db]
    /\ ret' = run.ret
    /\ calls' = <<>>
    /\ cookies' = <<>>
    /\ prev' = prev
    /\ db' = run.db

DeleteManager ==
    \E row \in db, loaded \in BOOLEAN : row.cls = "Manager" /\ Delete(row, loaded)
DeleteAuditor ==
    \E row \in db, loaded \in BOOLEAN : row.cls = "Auditor" /\ Delete(row, loaded)
DeleteCounsellor ==
    \E row \in db, loaded \in BOOLEAN : row.cls = "Counsellor" /\ Delete(row, loaded)
DeleteCall ==
    \E row \in db, loaded \in BOOLEAN : row.cls = "Call" /\ Delete(row, loaded)
DeleteLead ==
    \E row \in db, loaded \in BOOLEAN : row.cls = "Lead" /\ Delete(row, loaded)
DeleteAuditReport ==
    \E row \in db, loaded \in BOOLEAN : row.cls = "AuditReport" /\ Delete(row, loaded)

CascadeNext ==
    \/ DeleteManager
    \/ DeleteAuditor
    \/ DeleteCounsellor
    \/ DeleteCall
    \/ DeleteLead
    \/ DeleteAuditReport

SpecCascade == CascadeInit /\ [][CascadeNext]_vars

----------------------------------------------------------------------------
(* Properties of the service, one per claim of the specification.  They    *)
(* read the finished request: its arguments, the collaborator calls made   *)
(* and what each gave back, the cookies delivered and the outcome.         *)

Failed(status) == ret.kind = "HTTPException" /\ ret.status_code = status
Succeeded == ret.kind = "return"
NothingRaised == \A i \in DOMAIN calls : ~IsRaised(calls[i].out)
CallsOf(method) == {i \in DOMAIN calls : calls[i].method = method}
RepoCalls == {i \in DOMAIN calls : calls[i].target = "repo"}
NullOrEmpty(v) == v = None \/ v = EmptyDict \/ v = PyList(<<>>)
NotAManager(x) == x.cls # "Manager"
AuthFailure == Failed(HTTP_401_UNAUTHORIZED) \/ Failed(HTTP_403_FORBIDDEN)

\* C1: login_manager fails with 404 when the repository returns no Manager and
\* with 401 when the verifier rejects the password of a Manager that was found;
\* never both, and the verifier runs only after the lookup returned a Manager.
C1_LoginNotFoundOrUnauthorized ==
    op = "login_manager" =>
        /\ calls # <<>> /\ calls[1].method = "get_manager"
        /\ calls[1].out = None =>
              Failed(HTTP_404_NOT_FOUND) /\ CallsOf("verify") = {}
        /\ \A i \in CallsOf("verify") :
              /\ i > 1
              /\ calls[1].out.cls = "Manager"
              /\ calls[i].out = PyBool(FALSE) =>
                    Failed(HTTP_401_UNAUTHORIZED) /\ calls[1].out # None
        /\ ~(Failed(HTTP_404_NOT_FOUND) /\ Failed(HTTP_401_UNAUTHORIZED))

\* a login whose password the verifier rejected, after the Manager was found
C1_Witness ==
    /\ op = "login_manager"
    /\ Len(calls) = 2
    /\ calls[1].out.cls = "Manager"
    /\ calls[2].method = "verify" /\ calls[2].out = PyBool(FALSE)
    /\ Failed(HTTP_401_UNAUTHORIZED)

\* the (email, password) of the request match the Manager the repository holds
ValidLogin ==
    /\ op = "login_manager"
    /\ calls # <<>>
    /\ calls[1].out.cls = "Manager"
    /\ calls[1].out.email = args.email
    /\ \E i \in ManagerIds :
          /\ calls[1].out = ManagerRow(i)
          /\ args.password = PlainPassword(i)

\* both tokens were issued non-empty and no collaborator raised
TokensIssued ==
    /\ NothingRaised
    /\ \E i \in CallsOf("create_jwt_token") : calls[i].out.cls = "str" /\ calls[i].out.s # ""
    /\ \E i \in CallsOf("create_refresh_token") : calls[i].out.cls = "str" /\ calls[i].out.s # ""

\* two cookies under the keys token and refresh_token, with non-empty values,
\* and a user view of id, name, email and role that holds no password hash
LoginDelivered ==
    /\ Succeeded
    /\ Len(cookies) = 2
    /\ cookies[1].key = "token" /\ cookies[2].key = "refresh_token"
    /\ \A i \in 1..2 : cookies[i].value.cls = "str" /\ cookies[i].value.s # ""
    /\ DOMAIN ret.body = {"success", "message", "user"}
    /\ DOMAIN ret.body.user = {"id", "name", "email", "role"}
    /\ ret.body.user.id = calls[1].out.id
    /\ ret.body.user.name = calls[1].out.name
    /\ ret.body.user.email = calls[1].out.email
    /\ ret.body.user.role = "manager"
    /\ \A f \in DOMAIN ret.body.user : ret.body.user[f] # calls[1].out.password

\* C2 as stated: every valid (email, password) pair gets the two cookies and the
\* user view.
C2_Original == ValidLogin => LoginDelivered

\* C2, amended: every valid (email, password) pair for which both token
\* issuances return a non-empty token and no collaborator raises gets two
\* cookies with distinct keys (token, refresh_token) and non-empty values, and a
\* user view of id, name, email and role without the password hash.
C2_ValidLoginDelivered == (ValidLogin /\ TokensIssued) => LoginDelivered

C2_Witness == ValidLogin /\ TokensIssued /\ Len(cookies) = 2 /\ Succeeded

\* C3: once the Manager is found and the password verified, a falsy session
\* token or a falsy refresh token makes login_manager fail with 500.
C3_TokenFailureIsInternalError ==
    op = "login_manager" =>
        \A i \in CallsOf("create_jwt_token") \cup CallsOf("create_refresh_token") :
            /\ calls[1].out.cls = "Manager"
            /\ calls[2].out = PyBool(TRUE)
            /\ (~IsRaised(calls[i].out) /\ Falsy(calls[i].out)) =>
                  Failed(HTTP_500_INTERNAL_SERVER_ERROR)

\* the session token was issued and the refresh token came back empty
C3_Witness ==
    /\ op = "login_manager"
    /\ Len(calls) = 4
    /\ calls[3].method = "create_jwt_token" /\ ~Falsy(calls[3].out)
    /\ calls[4].method = "create_refresh_token" /\ calls[4].out = PyStr("")
    /\ Failed(HTTP_500_INTERNAL_SERVER_ERROR)

\* C4: get_manager_analytics handed something that is no Manager fails with
\* 403 and has called no repository method.
C4_NonManagerForbiddenBeforeRepo ==
    (op = "get_manager_analytics" /\ NotAManager(args.manager)) =>
        Failed(HTTP_403_FORBIDDEN) /\ RepoCalls = {} /\ calls = <<>>

C4_Witness ==
    /\ op = "get_manager_analytics"
    /\ args.manager = AuditorRow(1)
    /\ Failed(HTTP_403_FORBIDDEN)

AnalyticsOps ==
    {"get_manager_analytics", "get_auditors_analytics", "get_counsellor_analysis"}

\* C5 as stated: each of the three analytics reads fails with 403 or 401 when
\* its argument is no Manager.
C5_Original ==
    (op \in AnalyticsOps /\ NotAManager(args.manager)) => AuthFailure

\* C5, amended: only get_manager_analytics type-checks its argument and fails
\* with 403 for a non-Manager.  get_auditors_analytics and
\* get_counsellor_analysis do not: a non-Manager without an id fails with 500
\* before any repository call, one with an id has the repository queried with
\* that id like a Manager would, and neither ever fails with 403 or 401.
C5_OnlyManagerAnalyticsTypeChecks ==
    /\ (op = "get_manager_analytics" /\ NotAManager(args.manager)) =>
          Failed(HTTP_403_FORBIDDEN)
    /\ (op \in {"get_auditors_analytics", "get_counsellor_analysis"}
        /\ NotAManager(args.manager)) =>
          /\ ~AuthFailure
          /\ IF "id" \in DOMAIN args.manager
             THEN /\ calls # <<>>
                  /\ calls[1].target = "repo"
                  /\ calls[1].arg = PyStr(args.manager.id)
             ELSE Failed(HTTP_500_INTERNAL_SERVER_ERROR) /\ calls = <<>>

\* an Auditor handed to get_auditors_analytics gets the analytics
C5_Witness ==
    /\ op = "get_auditors_analytics"
    /\ args.manager = AuditorRow(1)
    /\ Succeeded

\* C6: get_manager_analytics whose five fetches all came back: one None among
\* them gives 500 and no payload, none gives a success payload holding exactly
\* the five fetched values (zero counts and empty lists included).
C6_ManagerAnalyticsAllOrNothing ==
    (op = "get_manager_analytics" /\ Len(calls) = 5 /\ NothingRaised) =>
        IF \E i \in 1..5 : calls[i].out = None
        THEN Failed(HTTP_500_INTERNAL_SERVER_ERROR) /\ "body" \notin DOMAIN ret
        ELSE /\ Succeeded
             /\ DOMAIN ret.body = {"success", "message", "total_assigned_leads",
                                   "total_audited_calls", "flagged_calls",
                                   "latest_flagged_audit", "last_7_days_data"}
             /\ ret.body.success
             /\ ret.body.total_assigned_leads = calls[1].out
             /\ ret.body.total_audited_calls = calls[2].out
             /\ ret.body.flagged_calls = calls[3].out
             /\ ret.body.latest_flagged_audit = calls[4].out
             /\ ret.body.last_7_days_data = calls[5].out

\* zero counts and empty lists are a success
C6_Witness ==
    /\ op = "get_manager_analytics"
    /\ Len(calls) = 5
    /\ \A i \in 1..3 : calls[i].out = PyInt(0)
    /\ calls[4].out = PyList(<<>>) /\ calls[5].out = PyList(<<>>)
    /\ Succeeded
    /\ ret.body.total_assigned_leads = PyInt(0)

\* C7: get_auditors_analytics and get_counsellor_analysis succeed only when the
\* aggregate and the roster are both non-null and non-empty; a null or empty
\* one gives 500.
C7_AggregateAndRosterRequired ==
    (op \in {"get_auditors_analytics", "get_counsellor_analysis"}
     /\ Len(calls) = 2 /\ NothingRaised) =>
        /\ Succeeded => ~NullOrEmpty(calls[1].out) /\ ~NullOrEmpty(calls[2].out)
        /\ (NullOrEmpty(calls[1].out) \/ NullOrEmpty(calls[2].out)) =>
              Failed(HTTP_500_INTERNAL_SERVER_ERROR)

\* a manager with no auditors yet: a full aggregate, an empty roster
C7_Witness ==
    /\ op = "get_auditors_analytics"
    /\ Len(calls) = 2
    /\ args.manager.cls = "Manager"
    /\ ~NullOrEmpty(calls[1].out)
    /\ calls[2].out = PyList(<<>>)
    /\ Failed(HTTP_500_INTERNAL_SERVER_ERROR)

\* C8: get_flagged_audits: an empty list from the repository is a success with
\* an empty flagged_audits, a non-empty list a success with that list, and None
\* a 500.
C8_EmptyIsSuccessNullIsError ==
    (op = "get_flagged_audits" /\ Len(calls) = 1 /\ NothingRaised) =>
        /\ calls[1].out = None => Failed(HTTP_500_INTERNAL_SERVER_ERROR)
        /\ calls[1].out # None =>
              /\ Succeeded
              /\ ret.body.success
              /\ ret.body.flagged_audits = calls[1].out
        /\ Succeeded => calls[1].out.cls = "list"

C8_Witness ==
    /\ op = "get_flagged_audits"
    /\ Len(calls) = 1
    /\ calls[1].out = PyList(<<>>)
    /\ Succeeded
    /\ ret.body.flagged_audits = PyList(<<>>)

\* C9: add_new_user("auditor") hands the repository the hash of the generated
\* password and returns the generated plaintext, not the hash.
C9_PlaintextReturned ==
    (op = "add_new_user" /\ args.role = "auditor" /\ Succeeded) =>
        \E h \in CallsOf("hash"), c \in CallsOf("create_auditor") :
            /\ h < c
            /\ calls[c].arg.password = calls[h].out
            /\ ret.body.password = calls[h].arg
            /\ ret.body.password # calls[h].out

\* C10: add_new_user("counsellor") with an empty auditor_id fails with status
\* 500 before any repository call; create_counsellor is called only with a
\* non-empty auditor_id.
C10_CounsellorNeedsAuditorId ==
    (op = "add_new_user" /\ args.role = "counsellor") =>
        /\ args.auditor_id \in {PyStr(""), None} =>
              Failed(HTTP_500_INTERNAL_SERVER_ERROR) /\ calls = <<>>
        /\ \A i \in CallsOf("create_counsellor") :
              /\ args.auditor_id \notin {PyStr(""), None}
              /\ calls[i].arg.auditor_id = args.auditor_id

C10_Witness ==
    /\ op = "add_new_user"
    /\ args.role = "counsellor"
    /\ args.auditor_id = PyStr("")
    /\ Failed(HTTP_500_INTERNAL_SERVER_ERROR)
    /\ calls = <<>>

\* C11: add_new_user with a role that is neither auditor nor counsellor fails
\* with 400, calls no repository method and creates no user.
C11_UnknownRoleIsBadRequest ==
    (op = "add_new_user" /\ args.role \notin {"auditor", "counsellor"}) =>
        /\ Failed(HTTP_400_BAD_REQUEST)
        /\ RepoCalls = {}
        /\ CallsOf("create_auditor") \cup CallsOf("create_counsellor") = {}
        /\ calls = <<>>

C11_Witness ==
    /\ op = "add_new_user"
    /\ args.role = "manager"
    /\ Failed(HTTP_400_BAD_REQUEST)
    /\ calls = <<>>

\* C12: for every length >= 4 the generated password has exactly that length
\* and holds a lowercase letter, an uppercase letter, a digit and a
\* punctuation character, whatever the draws and the shuffle; for every length
\* below 4 a ValueError leaves the method and no password is produced.
C12_PasswordHasEveryClass ==
    op = "generate_strong_password" =>
        IF args.length >= 4
        THEN /\ Succeeded
             /\ ret.body.cls = "str"
             /\ Len(ret.body.s) = args.length
             /\ Len(calls) = 1
             /\ LET chars == calls[1].out.items IN
                /\ Len(chars) = args.length
                /\ join(chars) = ret.body.s
                /\ \E i \in DOMAIN chars : chars[i] \in ascii_lowercase
                /\ \E i \in DOMAIN chars : chars[i] \in ascii_uppercase
                /\ \E i \in DOMAIN chars : chars[i] \in digits
                /\ \E i \in DOMAIN chars : chars[i] \in punctuation
        ELSE /\ ret.kind = "Exception"
             /\ calls = <<>>

C12_Witness ==
    /\ op = "generate_strong_password"
    /\ args.length > 4
    /\ Succeeded
    /\ Len(ret.body.s) = args.length
    /\ args.draws.perm[1] # 1

EmptyId(id) == id = None \/ id = PyStr("")
RepoSaidYes(i) == calls[i].out = PyBool(TRUE)

\* C13: each of the four activation and deactivation methods fails with 500
\* without a repository call when the id is empty; with a non-empty id it calls
\* the repository method of its own name exactly once with that id, fails with
\* 500 when the repository reports no change (or raises), and otherwise
\* succeeds with a message that names the id.
C13_ToggleCallsItsRepoMethodOnce ==
    op \in ToggleOps =>
        IF EmptyId(ToggleId)
        THEN Failed(HTTP_500_INTERNAL_SERVER_ERROR) /\ calls = <<>>
        ELSE /\ Len(calls) = 1
             /\ calls[1].target = "repo"
             /\ calls[1].method = op
             /\ calls[1].arg = ToggleId
             /\ IF RepoSaidYes(1)
                THEN /\ Succeeded
                     /\ ret.body.success
                     /\ \E prefix \in {"Succesfully deactivated auditor with id: ",
                                       "Succesfully activated auditor with id: ",
                                       "Succesfully deactivate counsellor with id: ",
                                       "Succesfully activated counsellor with id: "} :
                            ret.body.message = prefix \o ToggleId.s
                ELSE Failed(HTTP_500_INTERNAL_SERVER_ERROR)

C13_Witness ==
    /\ op = "activate_counsellor"
    /\ ~EmptyId(args.counsellor_id)
    /\ Len(calls) = 1
    /\ Succeeded

WrapperOps == {"deactivate_auditor_or_counsellor", "activate_auditor_or_counsellor"}
WrapperVerb ==
    IF op = "activate_auditor_or_counsellor" THEN "activate" ELSE "deactivate"

\* C14: the two wrappers route by role: 'auditor' runs only the auditor
\* operation of the wrapper's own direction with auditor_id, 'counsellor' only
\* the counsellor operation with counsellor_id, and any other role fails with
\* 400 without a repository call.
C14_WrapperRoutesByRole ==
    op \in WrapperOps =>
        CASE args.role = "auditor" ->
                /\ \A i \in DOMAIN calls :
                       /\ calls[i].method = WrapperVerb \o "_auditor"
                       /\ calls[i].arg = args.auditor_id
                /\ Len(calls) = IF EmptyId(args.auditor_id) THEN 0 ELSE 1
                /\ Succeeded <=> (calls # <<>> /\ RepoSaidYes(1))
          [] args.role = "counsellor" ->
                /\ \A i \in DOMAIN calls :
                       /\ calls[i].method = WrapperVerb \o "_counsellor"
                       /\ calls[i].arg = args.counsellor_id
                /\ Len(calls) = IF EmptyId(args.counsellor_id) THEN 0 ELSE 1
                /\ Succeeded <=> (calls # <<>> /\ RepoSaidYes(1))
          [] OTHER ->
                /\ Failed(HTTP_400_BAD_REQUEST)
                /\ calls = <<>>

C14_Witness ==
    /\ op = "activate_auditor_or_counsellor"
    /\ args.role = "counsellor"
    /\ args.auditor_id # None
    /\ Succeeded
    /\ calls[1].method = "activate_counsellor"

\* C16: unflag_flagged_audit with a caller that is no Manager fails with 401
\* and never asks the repository to clear a flag; with a Manager it calls the
\* repository's unflag once for the given audit id, fails with 500 when the
\* repository reports failure (or raises) and succeeds otherwise.
C16_UnflagNeedsManager ==
    op = "unflag_flagged_audit" =>
        IF NotAManager(args.manager)
        THEN Failed(HTTP_401_UNAUTHORIZED) /\ calls = <<>>
        ELSE /\ Len(calls) = 1
             /\ calls[1].target = "repo"
             /\ calls[1].method = "unflag_audit"
             /\ calls[1].arg = args.audit_id
             /\ IF RepoSaidYes(1)
                THEN Succeeded /\ ret.body.success
                ELSE Failed(HTTP_500_INTERNAL_SERVER_ERROR)

C16_Witness ==
    /\ op = "unflag_flagged_audit"
    /\ ~NotAManager(args.manager)
    /\ calls[1].out = PyBool(FALSE)
    /\ Failed(HTTP_500_INTERNAL_SERVER_ERROR)

HTTPStatuses ==
    {HTTP_400_BAD_REQUEST, HTTP_401_UNAUTHORIZED, HTTP_403_FORBIDDEN,
     HTTP_404_NOT_FOUND, HTTP_500_INTERNAL_SERVER_ERROR}
SuccessOrHTTPError ==
    \/ Succeeded
    \/ ret.kind = "HTTPException" /\ ret.status_code \in HTTPStatuses
RepeatedToggle ==
    /\ op \in ToggleOps
    /\ prev.op = op
    /\ prev.id = ToggleId

\* C15: calling the same activation or deactivation twice in a row on the same
\* non-empty id never crashes: the first call ended, and the second call ends,
\* with a success response or an HTTP-style error, whatever the repository
\* reports or raises for the second call.
C15_RepeatedToggleNeverCrashes ==
    /\ (op \in ToggleOps /\ ~EmptyId(ToggleId)) => SuccessOrHTTPError
    /\ RepeatedToggle =>
           /\ prev.kind \in {"return", "HTTPException"}
           /\ Len(calls) = 1
           /\ SuccessOrHTTPError

C15_Witness ==
    /\ op = "deactivate_auditor"
    /\ RepeatedToggle
    /\ prev.kind = "return"
    /\ IsRaised(calls[1].out)
    /\ Failed(HTTP_500_INTERNAL_SERVER_ERROR)

\* C20: in every successful get_counsellor_analysis response total_calls_made
\* and total_counsellors are read from the same repository key
\* 'total_counsellors', so the two fields are equal whatever the repository
\* holds under any other key.
C20_BothTotalsFromOneKey ==
    (op = "get_counsellor_analysis" /\ Succeeded) =>
        /\ ret.body.total_calls_made = ret.body.total_counsellors
        /\ ret.body.total_counsellors = calls[1].out.map.total_counsellors

C20_Witness ==
    /\ op = "get_counsellor_analysis"
    /\ Succeeded
    /\ "total_calls_made" \in DOMAIN calls[1].out.map
    /\ calls[1].out.map.total_calls_made # calls[1].out.map.total_counsellors
    /\ ret.body.total_calls_made = calls[1].out.map.total_counsellors

PublicOps ==
    {"login_manager", "get_manager_analytics", "get_auditors_analytics",
     "get_counsellor_analysis", "get_flagged_audits", "add_new_user",
     "unflag_flagged_audit", "add_new_manager"} \cup ToggleOps \cup WrapperOps
GenericDetails ==
    {"Internal server error occurred while manager login",
     "Internal server error while getting manager analysis for manager",
     "Internal server error while getting audit analysis.",
     "Internal server error while getting counsellor analysis.",
     "Internal server error while getting flagged audits.",
     "Internal server error occurred while creating new auditor",
     "Internal server error occurred while creating new counsellor",
     "Internal server error occurred while creating new auditor or counsellor",
     "Internal server error occurred while deactivating auditor",
     "Internal server error occurred while activating auditor",
     "Internal server error occurred while deactivating counsellor",
     "Internal server error occurred while activating counsellor",
     "Internal server error occurred while deactivating auditor or counsellor",
     "Internal server error occurred while activating auditor or counsellor",
     "Internal server error occurred while unflagging audit",
     "Internal Server error occurred while creating new manager"}
RaisedCalls == {i \in DOMAIN calls : IsRaised(calls[i].out)}

\* C17: every public method ends in a success response or an HTTP-style
\* error; an HTTP-style error raised inside the body, also by a nested service
\* method, reaches the caller with its status and detail unchanged; an
\* exception of a collaborator is turned into a 500 whose detail is one of the
\* fixed generic texts and carries nothing of the exception's text.
C17_OnlyResponsesAndHTTPErrors ==
    op \in PublicOps =>
        /\ SuccessOrHTTPError
        /\ \A i \in RaisedCalls :
               /\ Failed(HTTP_500_INTERNAL_SERVER_ERROR)
               /\ ret.detail \in GenericDetails
               /\ ret.detail # calls[i].out.text
        /\ (op = "add_new_user" /\ args.role = "counsellor"
              /\ EmptyId(args.auditor_id)) =>
               ret = HTTPException(HTTP_500_INTERNAL_SERVER_ERROR,
                                   "Auditor ID needed for creating counsellor")
        /\ (op \in WrapperOps /\ args.role = "auditor"
              /\ EmptyId(args.auditor_id)) =>
               ret = HTTPException(HTTP_500_INTERNAL_SERVER_ERROR,
                                   "Auditor id not found")
        /\ (op \in WrapperOps /\ args.role = "manager") =>
               ret = HTTPException(HTTP_400_BAD_REQUEST,
                                   "No valid role to " \o WrapperVerb)

C17_Witness ==
    /\ op = "add_new_user"
    /\ args.role = "auditor"
    /\ RaisedCalls # {}
    /\ ret = HTTPException(HTTP_500_INTERNAL_SERVER_ERROR,
                           "Internal server error occurred while creating new auditor")

ReadMethods ==
    {"get_manager", "get_all_leads", "get_all_audit", "get_all_flagged_call",
     "get_all_latest_flagged_audit", "get_last_7_days_audited_calls",
     "get_auditor_and_audited_call_counts", "get_auditors",
     "get_counsellor_data", "get_counsellors"}
CreateMethods == {"create_auditor", "create_counsellor", "create_new_manager"}

\* C19: no ManagerService operation hard-deletes an Auditor or Counsellor row:
\* over any sequence of calls every repository method invoked is a read, a
\* create, the audit unflag or one of the four is_active flips, and a flip is
\* only requested by the activation and deactivation methods, for the id given.
C19_NoHardDelete ==
    \A i \in RepoCalls :
        /\ calls[i].method \in
               ReadMethods \cup CreateMethods \cup {"unflag_audit"} \cup ToggleOps
        /\ calls[i].method \in ToggleOps =>
               /\ op \in ToggleOps \cup WrapperOps
               /\ calls[i].arg = IF op \in ToggleOps THEN ToggleId
                                 ELSE IF args.role = "auditor" THEN args.auditor_id
                                 ELSE args.counsellor_id

C19_Witness ==
    /\ prev.op = "activate_auditor"
    /\ op = "deactivate_auditor"
    /\ Succeeded
    /\ calls[1].method = "deactivate_auditor"
    /\ calls[1].arg = prev.id

DeleteOf(cls) == op = "delete" /\ args.row.cls = cls
\* rows that name the deleted row in the given foreign key column
StillReferencing(classes, fk) ==
    {c \in db : c.cls \in classes /\ c[fk] = args.row.id}
ReferencedBefore(classes, fk) ==
    {c \in args.before : c.cls \in classes /\ c[fk] = args.row.id}
NoDanglingOwner ==
    \A c \in db :
        /\ c.cls \in {"Auditor", "Counsellor", "Call", "Lead"} =>
               \E m \in db : m.cls = "Manager" /\ m.id = c.manager_id
        /\ c.cls \in {"Counsellor", "Call", "Lead"} =>
               \E a \in db : a.cls = "Auditor" /\ a.id = c.auditor_id
        /\ c.cls \in {"Call", "Lead"} =>
               \E k \in db : k.cls = "Counsellor" /\ k.id = c.counsellor_id

\* C18 as the specification has it: cascading deletes flow from the Manager
\* down, so that deleting a Manager removes its Auditors, deleting an Auditor
\* removes its Counsellors and Calls, deleting a Counsellor removes its Calls
\* and Leads, and no surviving row references a deleted owner.
C18_Original ==
    /\ NoDanglingOwner
    /\ DeleteOf("Manager") =>
           args.row \notin db /\ StillReferencing({"Auditor"}, "manager_id") = {}
    /\ DeleteOf("Auditor") =>
           /\ args.row \notin db
           /\ StillReferencing({"Counsellor", "Call"}, "auditor_id") = {}
    /\ DeleteOf("Counsellor") =>
           /\ args.row \notin db
           /\ StillReferencing({"Call", "Lead"}, "counsellor_id") = {}

\* C18, amended: cascading deletes start at the Auditor.  A delete either goes
\* through or is refused and leaves every table as it was.  A delete of an
\* Auditor that goes through removes its Counsellors and Calls (and, through
\* the Counsellors, their Leads); one of a Counsellor removes its Calls and
\* Leads; with the collections loaded and no AuditReport in the way both go
\* through.  A delete of a Manager removes none of its Auditors: it goes
\* through only when no row references the Manager.  After any sequence of
\* deletes no surviving Auditor, Counsellor, Call or Lead references a deleted
\* owner.
C18_CascadeStartsAtAuditor ==
    /\ NoDanglingOwner
    /\ op = "delete" =>
           /\ Succeeded \/ (ret.kind = "Exception" /\ db = args.before)
           /\ Succeeded => (args.row \notin db /\ db \subseteq args.before)
    /\ DeleteOf("Manager") =>
           /\ ReferencedBefore({"Auditor"}, "manager_id") \subseteq db
           /\ Succeeded <=>
                  ReferencedBefore({"Auditor", "Counsellor", "Call", "Lead",
                                    "AuditReport"}, "manager_id") = {}
           /\ Succeeded => db = args.before \ {args.row}
    /\ (DeleteOf("Auditor") /\ Succeeded) =>
           /\ StillReferencing({"Counsellor", "Call", "Lead"}, "auditor_id") = {}
           /\ \A c \in args.before \ db :
                  c = args.row \/ (c.cls # "Manager" /\ c.auditor_id = args.row.id)
    /\ (DeleteOf("Counsellor") /\ Succeeded) =>
           /\ StillReferencing({"Call", "Lead"}, "counsellor_id") = {}
           /\ \A c \in args.before \ db :
                  c = args.row \/ (c.cls \in {"Call", "Lead"}
                                     /\ c.counsellor_id = args.row.id)
    /\ ((DeleteOf("Auditor") \/ DeleteOf("Counsellor")) /\ args.loaded
          /\ ~\E c \in args.before : c.cls = "AuditReport") => Succeeded

C18_Witness ==
    /\ DeleteOf("Auditor")
    /\ Succeeded
    /\ ReferencedBefore({"Counsellor"}, "auditor_id") # {}
    /\ ReferencedBefore({"Call"}, "auditor_id") # {}
    /\ ReferencedBefore({"Lead"}, "auditor_id") # {}
    /\ \E c \in db : c.cls = "Auditor"

\* the calls of `method` that handed back a non-empty token
IssuedAt(method) ==
    {i \in CallsOf(method) : calls[i].out.cls = "str" /\ calls[i].out.s # ""}
LoginFailedBeforeCookies ==
    /\ op = "login_manager"
    /\ ~Succeeded
    /\ CallsOf("set_cookie") = {}

\* C21: login_manager sets cookies only after both the session token and the
\* refresh token were issued: on every failing path that ends before the first
\* set_cookie (manager not found, password mismatch, a token that was not
\* issued, a collaborator that raised) the response sink has received no
\* cookie; every set_cookie call comes after both issuances, and a session
\* cookie in the sink carries the issued session token and implies that the
\* refresh token was issued.
C21_CookiesOnlyAfterBothTokens ==
    op = "login_manager" =>
        /\ LoginFailedBeforeCookies => cookies = <<>>
        /\ (\/ Failed(HTTP_404_NOT_FOUND)
            \/ Failed(HTTP_401_UNAUTHORIZED)
            \/ IssuedAt("create_jwt_token") = {}
            \/ IssuedAt("create_refresh_token") = {}) =>
               LoginFailedBeforeCookies
        /\ \A i \in CallsOf("set_cookie") :
               /\ \E j \in IssuedAt("create_jwt_token") : j < i
               /\ \E j \in IssuedAt("create_refresh_token") : j < i
        /\ \A c \in DOMAIN cookies :
               /\ CallsOf("set_cookie") # {}
               /\ cookies[c].key = "token" =>
                      /\ \E j \in IssuedAt("create_jwt_token") :
                             cookies[c].value = calls[j].out
                      /\ IssuedAt("create_refresh_token") # {}

C21_Witness ==
    /\ LoginFailedBeforeCookies
    /\ IssuedAt("create_jwt_token") # {}
    /\ CallsOf("create_refresh_token") # {}
    /\ IssuedAt("create_refresh_token") = {}
    /\ NothingRaised
    /\ Failed(HTTP_500_INTERNAL_SERVER_ERROR)
    /\ cookies = <<>>

====
